---- MODULE Spec2Model ----
(***************************************************************************)
(* Model of the portfolio repository's lint script (parseArgs,             *)
(* walkForExtensions, lintHtml, lintCss, lintJs, main) and of the browser  *)
(* script's typewriter (runTypewriter / typeChar).                         *)
(*                                                                         *)
(* Text is modelled as a sequence of lexemes.  A stylesheet is a sequence  *)
(* of single characters.  A markup document, a script and a file name are  *)
(* sequences of atoms (an atom is a literal piece of text such as "<img"   *)
(* or "alt="), and every regular expression of the source is evaluated on  *)
(* those sequences position by position, as the regex engine does.         *)
(***************************************************************************)
EXTENDS Integers, Sequences, FiniteSets, TLC

VARIABLES
  \* ---- lint script: main / parseArgs ----
  argv,         \* process.argv from index 2 on
  pc,           \* position of the process that is running
  scope,        \* args.scope ("null" when no --scope was given)
  scopesToRun,  \* main: scopesToRun
  cursor,       \* main: position of the for-loop in scopesToRun
  hasErrors,    \* main: hasErrors
  exitCode,     \* process.exitCode (0 while unset)
  invoked,      \* analyzers called so far, in call order
  running,      \* the analyzer whose promise is pending ("none" if none)
  walkCalls,    \* number of calls of walkForExtensions
  printed,      \* console output, in order
  taskResult,   \* the ScopeResult the last analyzer returned
  threw,        \* what reached main's catch: "none", "args" or "task"
  produced,     \* number of Error diagnostics returned by executed scopes
  \* ---- the file tree as the analyzers read it ----
  htmlFiles,    \* contents of the .html files, in walk order
  cssFiles,     \* contents of the .css files, in walk order
  jsFiles,      \* the .js files, in walk order
  \* ---- walkForExtensions ----
  tree,         \* the directory tree: a set of nodes [path, dir]
  extensions,   \* the extension set passed by the caller
  stack,        \* visit(): one frame per active call, [dir, todo]
  results,      \* walkForExtensions: results
  readdirCalls, \* directories readdir was called on
  \* ---- browser script: typewriter ----
  dataText,     \* heroTitle.dataset.text: [present, value]
  textContent,  \* heroTitle.textContent
  typing,       \* heroTitle.dataset.typing
  matches,      \* reduceMotion.matches
  typingTimeout,\* the timer id held in typingTimeout (0: undefined)
  timers,       \* pending setTimeout callbacks: [id, index, fullText]
  nextTimer,    \* next timer id handed out by setTimeout
  titleAtLoad,  \* the title text the page was loaded with
  changes       \* number of reduced-motion change events delivered

mainVars == <<argv, pc, scope, scopesToRun, cursor, hasErrors, exitCode, invoked,
              running, walkCalls, printed, taskResult, threw, produced>>
fileVars == <<htmlFiles, cssFiles, jsFiles>>
walkVars == <<tree, extensions, stack, results, readdirCalls>>
typeVars == <<dataText, textContent, typing, matches, typingTimeout, timers,
              nextTimer, titleAtLoad, changes>>
vars == <<mainVars, fileVars, walkVars, typeVars>>

(***************************************************************************)
(* Bounds of the model.                                                    *)
(***************************************************************************)
MaxArgs == 4
MaxCssLen == 6
MaxHtmlLen == 5
MaxJsFiles == 2
MaxNodes == 4
MaxTitleLen == 2
MaxChanges == 2

(***************************************************************************)
(* Generic helpers.                                                        *)
(***************************************************************************)
SeqsUpTo(S, n) == UNION {[1..k -> S] : k \in 0..n}

RECURSIVE Concat(_)
Concat(ss) == IF ss = <<>> THEN <<>> ELSE Head(ss) \o Concat(Tail(ss))

\* A diagnostic: file is the index of the file in the walk's list, line is 0
\* for a file-level diagnostic.
Diag(file, line, rule) ==
  [file |-> file, line |-> line, rule |-> rule, selector |-> <<>>, firstSeen |-> 0]

CountRule(diags, file, rule) ==
  Cardinality({k \in 1..Len(diags) : diags[k].file = file /\ diags[k].rule = rule})

(***************************************************************************)
(* parseArgs.                                                              *)
(***************************************************************************)
Scopes == <<"html", "css", "js">>
ScopeSet == {Scopes[k] : k \in 1..Len(Scopes)}

\* String.prototype.toLowerCase on the argument tokens of the model.
ToLowerCase(s) ==
  CASE s = "HTML" -> "html"
    [] s = "Css" -> "css"
    [] OTHER -> s

\* !value: undefined (no token) or the empty string.
Falsy(args, k) == k > Len(args) \/ args[k] = ""

\* The for-loop of parseArgs from position index; the result is either
\* [error |-> "none", scope |-> s] or the error thrown in the loop.
RECURSIVE ParseLoop(_, _, _)
\* The loop with the first --scope kept instead of the last.
ParseLoop_FirstWins(args, index, sc) ==
  IF index > Len(args) THEN [error |-> "none", scope |-> sc]
  ELSE IF args[index] = "--scope"
       THEN IF Falsy(args, index + 1)
            THEN [error |-> "Expected a value after --scope", scope |-> sc]
            ELSE ParseLoop(args, index + 2,
                           IF sc = "null" THEN ToLowerCase(args[index + 1]) ELSE sc)
       ELSE ParseLoop(args, index + 1, sc)

\* The loop of the source: every --scope overwrites args.scope.
ParseLoop(args, index, sc) ==
  IF index > Len(args) THEN [error |-> "none", scope |-> sc]
  ELSE IF args[index] = "--scope"
       THEN IF Falsy(args, index + 1)
            THEN [error |-> "Expected a value after --scope", scope |-> sc]
            ELSE ParseLoop(args, index + 2, ToLowerCase(args[index + 1]))
       ELSE ParseLoop(args, index + 1, sc)

\* The validation after the loop.
ScopeCheck(r) ==
  IF r.error = "none" /\ r.scope # "null" /\ r.scope \notin ScopeSet
  THEN [error |-> "Unknown scope", scope |-> r.scope]
  ELSE r

parseArgs(args) == ScopeCheck(ParseLoop(args, 1, "null"))

(***************************************************************************)
(* Text helpers shared by the analyzers.                                   *)
(***************************************************************************)
IsSpace(c) == c \in {" ", "\n", "\t", "\r"}

\* The line count taken as the number of line breaks (lines counted from 0).
LineOf_FromZero(contents, index) ==
  Cardinality({k \in 1..(index - 1) : contents[k] = "\n"})

\* contents.slice(0, index).split(/\r?\n/).length, for a match starting at
\* position index (1-based): one more than the number of "\n" before it.
LineOf(contents, index) ==
  1 + Cardinality({k \in 1..(index - 1) : contents[k] = "\n"})

\* String.prototype.trimStart / trim.
RECURSIVE TrimStart(_)
TrimStart(s) ==
  IF s # <<>> /\ IsSpace(Head(s)) THEN TrimStart(Tail(s)) ELSE s

RECURSIVE TrimEnd(_)
TrimEnd(s) ==
  IF s # <<>> /\ IsSpace(s[Len(s)]) THEN TrimEnd(SubSeq(s, 1, Len(s) - 1)) ELSE s

Trim(s) == TrimEnd(TrimStart(s))

\* replace(/\s+/g, ' '): every run of whitespace becomes one space.
RECURSIVE CollapseSpace(_)
CollapseSpace(s) ==
  IF s = <<>> THEN <<>>
  ELSE IF IsSpace(Head(s))
       THEN <<" ">> \o CollapseSpace(TrimStart(s))
       ELSE <<Head(s)>> \o CollapseSpace(Tail(s))

\* contents.split(/\r?\n/): the lines, a "\r" right before a "\n" dropped.
RECURSIVE SplitLines(_, _)
SplitLines(s, line) ==
  IF s = <<>> THEN <<line>>
  ELSE IF Head(s) = "\n" THEN <<line>> \o SplitLines(Tail(s), <<>>)
  ELSE IF Head(s) = "\r" /\ Len(s) > 1 /\ s[2] = "\n"
       THEN <<line>> \o SplitLines(Tail(Tail(s)), <<>>)
       ELSE SplitLines(Tail(s), Append(line, Head(s)))

\* Number of characters of a lexeme of a stylesheet.
CharLen(c) == IF c \in {"!important", "!IMPORTANT"} THEN 10 ELSE 1

RECURSIVE LineLength(_)
LineLength(line) ==
  IF line = <<>> THEN 0 ELSE CharLen(Head(line)) + LineLength(Tail(line))

(***************************************************************************)
(* lintCss, for one file.                                                  *)
(***************************************************************************)
MaxLineLength == 140

\* lines.forEach: tabs (errors) and long lines (warnings).
RECURSIVE LineChecks(_, _, _)
LineChecks(file, lines, n) ==
  IF n > Len(lines) THEN [errors |-> <<>>, warnings |-> <<>>]
  ELSE LET rest == LineChecks(file, lines, n + 1)
           e == IF \E k \in 1..Len(lines[n]) : lines[n][k] = "\t"
                THEN <<Diag(file, n, "tabs")>> ELSE <<>>
           w == IF LineLength(lines[n]) > MaxLineLength
                THEN <<Diag(file, n, "long-line")>> ELSE <<>>
       IN [errors |-> e \o rest.errors, warnings |-> w \o rest.warnings]

BraceStep(balance, c) ==
  balance + (IF c = "{" THEN 1 ELSE 0) - (IF c = "}" THEN 1 ELSE 0)

\* The balance loop with its break, then the check after the loop.
RECURSIVE BraceLoop(_, _, _, _)
BraceLoop(file, contents, i, balance) ==
  IF i > Len(contents)
  THEN IF balance > 0 THEN <<Diag(file, 0, "missing-closing-brace")>> ELSE <<>>
  ELSE LET b == BraceStep(balance, contents[i])
       IN IF b < 0
          THEN <<Diag(file, 0, "unexpected-closing-brace")>>
               \o (IF b > 0 THEN <<Diag(file, 0, "missing-closing-brace")>> ELSE <<>>)
          ELSE BraceLoop(file, contents, i + 1, b)

\* The loop without the break: the scan goes on after a negative balance.
RECURSIVE BraceLoop_NoBreak(_, _, _, _)
BraceLoop_NoBreak(file, contents, i, balance) ==
  IF i > Len(contents)
  THEN IF balance > 0 THEN <<Diag(file, 0, "missing-closing-brace")>> ELSE <<>>
  ELSE LET b == BraceStep(balance, contents[i])
       IN (IF b < 0 THEN <<Diag(file, 0, "unexpected-closing-brace")>> ELSE <<>>)
          \o BraceLoop_NoBreak(file, contents, i + 1, b)

BraceErrors_NoBreak(file, contents) == BraceLoop_NoBreak(file, contents, 1, 0)

BraceErrors(file, contents) == BraceLoop(file, contents, 1, 0)

IsBrace(c) == c \in {"{", "}"}

\* Position of the first brace at or after s, or 0.
NextBrace(contents, s) ==
  LET B == {e \in s..Len(contents) : IsBrace(contents[e])}
  IN IF B = {} THEN 0 ELSE CHOOSE e \in B : \A f \in B : e <= f

\* /(?!@)([^{}]+)\{/ tried at position s: the lookahead rejects "@", the
\* group takes the whole run of non-brace characters (a shorter run is never
\* followed by "{"), and the run must be non-empty and end at a "{".
SelectorMatchAt(contents, s) ==
  /\ contents[s] # "@"
  /\ ~IsBrace(contents[s])
  /\ NextBrace(contents, s) # 0
  /\ contents[NextBrace(contents, s)] = "{"

\* selectorPattern.exec(contents) with lastIndex = from: the leftmost
\* position at or after from where the pattern matches, or 0 for null.
SelectorExec(contents, from) ==
  LET M == {s \in from..Len(contents) : SelectorMatchAt(contents, s)}
  IN IF M = {} THEN 0 ELSE CHOOSE s \in M : \A t \in M : s <= t

DupDiag(file, line, normalized, firstSeenLine) ==
  [file |-> file, line |-> line, rule |-> "duplicate-selector",
   selector |-> normalized, firstSeen |-> firstSeenLine]

\* The while loop over selectorPattern.exec; seenSelectors is a function
\* from normalized selectors to the line they were first seen at.
RECURSIVE SelectorLoop(_, _, _, _)
SelectorLoop(file, contents, from, seenSelectors) ==
  LET index == SelectorExec(contents, from)
  IN IF index = 0 THEN <<>>
     ELSE LET brace == NextBrace(contents, index)
              rawSelector == Trim(SubSeq(contents, index, brace - 1))
              normalized == CollapseSpace(rawSelector)
              line == LineOf(contents, index)
          IN IF rawSelector = <<>>
             THEN SelectorLoop(file, contents, brace + 1, seenSelectors)
             ELSE IF normalized \in DOMAIN seenSelectors
                  THEN <<DupDiag(file, line, normalized, seenSelectors[normalized])>>
                       \o SelectorLoop(file, contents, brace + 1, seenSelectors)
                  ELSE SelectorLoop(file, contents, brace + 1,
                                    seenSelectors @@ (normalized :> line))

DuplicateWarnings(file, contents) == SelectorLoop(file, contents, 1, <<>>)

\* /!important/i.test(contents)
HasImportant(contents) ==
  \E k \in 1..Len(contents) : contents[k] \in {"!important", "!IMPORTANT"}

\* The body of lintCss's for-loop for one file.
LintCssFile(file, contents) ==
  LET lc == LineChecks(file, SplitLines(contents, <<>>), 1)
  IN [errors |-> lc.errors \o BraceErrors(file, contents),
      warnings |-> lc.warnings \o DuplicateWarnings(file, contents)
                   \o (IF HasImportant(contents)
                       THEN <<Diag(file, 0, "important")>> ELSE <<>>)]

\* lintCss over the files walkForExtensions returned.
lintCss(files) ==
  [errors |-> Concat([k \in 1..Len(files) |-> LintCssFile(k, files[k]).errors]),
   warnings |-> Concat([k \in 1..Len(files) |-> LintCssFile(k, files[k]).warnings]),
   threw |-> FALSE]

(***************************************************************************)
(* lintHtml, for one file.  A markup document is a sequence of atoms.      *)
(***************************************************************************)
\* Atoms whose first / last character is a word character (\w), and atoms
\* that contain ">".
StartsWord(a) == a \in {"x", "alt=", "type=", "lang=", "name=\"viewport\"", "var"}
EndsWord(a) == a \in {"x", "<img", "<IMG", "<button", "<html", "<meta", "var"}
HasGt(a) == a \in {">", "<!DOCTYPE html>", "<!doctype html>"}

\* \b right after the atom at position i / right before the atom at j.
BoundaryAfter(contents, i) == i = Len(contents) \/ ~StartsWord(contents[i + 1])
BoundaryBefore(contents, j) == j = 1 \/ ~EndsWord(contents[j - 1])

\* Position of the first atom holding ">" after position i, or 0.
TagEnd(contents, i) ==
  LET E == {e \in (i + 1)..Len(contents) : HasGt(contents[e])}
  IN IF E = {} THEN 0 ELSE CHOOSE e \in E : \A f \in E : e <= f

\* /<tag\b[^>]*>/gi tried at position i, for the atoms opens of the tag.
TagMatchAt(contents, i, opens) ==
  /\ contents[i] \in opens
  /\ BoundaryAfter(contents, i)
  /\ TagEnd(contents, i) # 0

\* pattern.exec(contents) with lastIndex = from: leftmost match, or 0.
TagExec(contents, from, opens) ==
  LET M == {i \in from..Len(contents) : TagMatchAt(contents, i, opens)}
  IN IF M = {} THEN 0 ELSE CHOOSE i \in M : \A j \in M : i <= j

\* /\battr=/i.test(markup), markup being contents[i..e].
MarkupHas(contents, i, e, attrs) ==
  \E j \in (i + 1)..e : contents[j] \in attrs /\ BoundaryBefore(contents, j)

\* The while loop over pattern.exec: one diagnostic per matched tag that
\* lacks the attribute, located at the line the match starts on.
RECURSIVE TagLoop(_, _, _, _, _, _)
TagLoop(file, contents, from, opens, attrs, rule) ==
  LET index == TagExec(contents, from, opens)
  IN IF index = 0 THEN <<>>
     ELSE LET e == TagEnd(contents, index)
              rest == TagLoop(file, contents, e + 1, opens, attrs, rule)
          IN IF ~MarkupHas(contents, index, e, attrs)
             THEN <<Diag(file, LineOf(contents, index), rule)>> \o rest
             ELSE rest

ImgOpens == {"<img", "<IMG"}
AltAttrs == {"alt=", "ALT="}

MissingAlt(file, contents) ==
  TagLoop(file, contents, 1, ImgOpens, AltAttrs, "img-alt")

\* /^<!DOCTYPE html>/i.test(contents.trimStart())
HasDoctype(contents) ==
  LET t == TrimStart(contents)
  IN t # <<>> /\ Head(t) \in {"<!DOCTYPE html>", "<!doctype html>"}

\* /<tag\b[^>]*ATTR/i.test(contents); boundary says whether ATTR starts
\* with \b.
TagWithAttr(contents, opens, attrs, boundary) ==
  \E i \in 1..Len(contents) :
    /\ contents[i] \in opens
    /\ BoundaryAfter(contents, i)
    /\ \E j \in (i + 1)..Len(contents) :
         /\ contents[j] \in attrs
         /\ boundary => BoundaryBefore(contents, j)
         /\ \A k \in (i + 1)..(j - 1) : ~HasGt(contents[k])

\* The body of lintHtml's for-loop for one file.
LintHtmlFile(file, contents) ==
  [errors |->
     (IF ~HasDoctype(contents) THEN <<Diag(file, 0, "doctype")>> ELSE <<>>)
     \o (IF ~TagWithAttr(contents, {"<html"}, {"lang="}, TRUE)
         THEN <<Diag(file, 0, "lang")>> ELSE <<>>)
     \o MissingAlt(file, contents),
   warnings |->
     (IF ~TagWithAttr(contents, {"<meta"}, {"name=\"viewport\""}, FALSE)
      THEN <<Diag(file, 0, "viewport")>> ELSE <<>>)
     \o TagLoop(file, contents, 1, {"<button"}, {"type="}, "button-type")]

lintHtml(files) ==
  [errors |-> Concat([k \in 1..Len(files) |-> LintHtmlFile(k, files[k]).errors]),
   warnings |-> Concat([k \in 1..Len(files) |-> LintHtmlFile(k, files[k]).warnings]),
   threw |-> FALSE]

(***************************************************************************)
(* lintJs.  A script file is [syntaxOk, readable, contents]: syntaxOk is   *)
(* the outcome of `node --check`, readable whether readFile succeeds.      *)
(***************************************************************************)
StrictPragmas == {"\"use strict\";", "'use strict';"}

\* trimmed.startsWith('"use strict";') || trimmed.startsWith("'use strict';")
StartsStrict(contents) ==
  LET t == TrimStart(contents) IN t # <<>> /\ Head(t) \in StrictPragmas

\* /\bvar\b/.test(contents)
HasVar(contents) ==
  \E k \in 1..Len(contents) :
    contents[k] = "var" /\ BoundaryBefore(contents, k) /\ BoundaryAfter(contents, k)

\* The checks that follow a successful syntax check.
StyleWarnings(file, contents) ==
  (IF ~StartsStrict(contents) THEN <<Diag(file, 0, "strict")>> ELSE <<>>)
  \o (IF HasVar(contents) THEN <<Diag(file, 0, "var")>> ELSE <<>>)

\* The for-loop of lintJs from file k on; a rejected readFile leaves the
\* function by an exception, and the lists built so far are lost.
RECURSIVE JsLoop(_, _, _, _)
\* The loop without the continue after a failed syntax check.
JsLoop_NoContinue(files, k, errors, warnings) ==
  IF k > Len(files) THEN [errors |-> errors, warnings |-> warnings, threw |-> FALSE]
  ELSE IF ~files[k].readable
       THEN [errors |-> <<>>, warnings |-> <<>>, threw |-> TRUE]
       ELSE JsLoop(files, k + 1,
                   IF files[k].syntaxOk THEN errors
                   ELSE Append(errors, Diag(k, 0, "syntax")),
                   warnings \o StyleWarnings(k, files[k].contents))

\* The loop of the source.
JsLoop(files, k, errors, warnings) ==
  IF k > Len(files) THEN [errors |-> errors, warnings |-> warnings, threw |-> FALSE]
  ELSE IF ~files[k].syntaxOk
       THEN JsLoop(files, k + 1, Append(errors, Diag(k, 0, "syntax")), warnings)
       ELSE IF ~files[k].readable
            THEN [errors |-> <<>>, warnings |-> <<>>, threw |-> TRUE]
            ELSE JsLoop(files, k + 1, errors,
                        warnings \o StyleWarnings(k, files[k].contents))

lintJs(files) == JsLoop(files, 1, <<>>, <<>>)

(***************************************************************************)
(* walkForExtensions.  A file name is a sequence of atoms, a path under    *)
(* the root a sequence of names, a tree a set of nodes [path, dir].  The   *)
(* atoms start with different characters, so comparing two strings by      *)
(* code unit is comparing their atoms by the code of the first character.  *)
(***************************************************************************)
IGNORED_FOLDERS == {<<".", "git">>, <<"node_modules">>, <<"dist">>}

rootDir == <<"/", "root">>

\* UTF-16 code of the first character of an atom.
Code(a) ==
  CASE a = "." -> 46
    [] a = "/" -> 47
    [] a = "a" -> 97
    [] a = "b" -> 98
    [] a = "css" -> 99
    [] a = "dist" -> 100
    [] a = "git" -> 103
    [] a = "html" -> 104
    [] a = "js" -> 106
    [] a = "node_modules" -> 110
    [] a = "root" -> 114
    [] a = "src" -> 115

\* path.extname(name): from the last "." on, unless there is none or it is
\* the first character of the name.
extname(name) ==
  LET D == {k \in 1..Len(name) : name[k] = "."}
      last == CHOOSE k \in D : \A j \in D : j <= k
  IN IF D = {} \/ last = 1 THEN <<>> ELSE SubSeq(name, last, Len(name))

\* path.join(currentDir, entry.name)
Join(dir, name) == dir \o <<"/">> \o name

\* The absolute path of a node, from its names under the root.
RECURSIVE Absolute(_)
Absolute(path) ==
  IF path = <<>> THEN rootDir
  ELSE Join(Absolute(SubSeq(path, 1, Len(path) - 1)), path[Len(path)])

\* The default comparison of Array.prototype.sort: by code unit.
RECURSIVE StrLess(_, _)
StrLess(x, y) ==
  IF y = <<>> THEN FALSE
  ELSE IF x = <<>> THEN TRUE
  ELSE IF Head(x) = Head(y) THEN StrLess(Tail(x), Tail(y))
  ELSE Code(Head(x)) < Code(Head(y))

RECURSIVE Insert(_, _)
Insert(sorted, x) ==
  IF sorted = <<>> THEN <<x>>
  ELSE IF StrLess(x, Head(sorted)) THEN <<x>> \o sorted
  ELSE <<Head(sorted)>> \o Insert(Tail(sorted), x)

RECURSIVE SortPaths(_)
SortPaths(list) ==
  IF list = <<>> THEN <<>>
  ELSE Insert(SortPaths(SubSeq(list, 1, Len(list) - 1)), list[Len(list)])

\* readdir(dir): the entries of the directory at path dir.
Readdir(t, dir) ==
  {n \in t : Len(n.path) = Len(dir) + 1 /\ SubSeq(n.path, 1, Len(dir)) = dir}

EntryName(n) == n.path[Len(n.path)]

\* The test applied to the entries of the root only.
IsIgnored_RootOnly(n) == Len(n.path) = 1 /\ EntryName(n) \in IGNORED_FOLDERS

\* if (IGNORED_FOLDERS.has(entry.name)) continue;
IsIgnored(n) == EntryName(n) \in IGNORED_FOLDERS

(***************************************************************************)
(* runTypewriter helpers.                                                  *)
(***************************************************************************)
\* heroTitle.dataset.text || heroTitle.textContent.trim()
\* (dataset.text is [present, value]; the empty string is falsy.)
FullText(data, text) ==
  IF data.present /\ data.value # <<>> THEN data.value ELSE Trim(text)

\* fullText.slice(0, index)
Slice(text, index) ==
  SubSeq(text, 1, IF index < Len(text) THEN index ELSE Len(text))

(***************************************************************************)
(* Idle values: each specification runs one part of the repository and     *)
(* leaves the state of the other parts at these values.                    *)
(***************************************************************************)
NoResult == [errors |-> <<>>, warnings |-> <<>>, threw |-> FALSE]

MainIdle ==
  /\ argv = <<>> /\ scope = "null" /\ scopesToRun = <<>> /\ cursor = 1
  /\ hasErrors = FALSE /\ exitCode = 0 /\ invoked = <<>> /\ running = "none"
  /\ walkCalls = 0 /\ printed = <<>> /\ taskResult = NoResult
  /\ threw = "none" /\ produced = 0

WalkIdle ==
  /\ tree = {} /\ extensions = {} /\ stack = <<>> /\ results = <<>>
  /\ readdirCalls = {}

TypeIdle ==
  /\ dataText = [present |-> FALSE, value |-> <<>>] /\ textContent = <<>>
  /\ typing = "unset" /\ matches = FALSE /\ typingTimeout = 0 /\ timers = {}
  /\ nextTimer = 1 /\ titleAtLoad = <<>> /\ changes = 0

(***************************************************************************)
(* main.                                                                   *)
(***************************************************************************)
ArgTokens == {"--scope", "css", "js", "HTML", "foo", ""}

GoodHtml == <<"<!DOCTYPE html>", "\n", "<html", " ", "lang=", ">", "<meta", " ",
              "name=\"viewport\"", ">", "<img", " ", "alt=", ">">>
WarnHtml == <<"<!DOCTYPE html>", "<html", " ", "lang=", ">", "<button", ">">>
BadHtml == <<"<html", ">", "\n", "<img", ">">>
GoodCss == <<"a", " ", "{", "}", "\n", "b", "{", "}">>
WarnCss == <<"a", "{", "!important", "}", "a", "{", "}">>
BadCss == <<"a", "{", "\t", "\n">>
GoodJs == [syntaxOk |-> TRUE, readable |-> TRUE, contents |-> <<"'use strict';", "\n", "x">>]
WarnJs == [syntaxOk |-> TRUE, readable |-> TRUE, contents |-> <<"var", " ", "x">>]
BadJs == [syntaxOk |-> FALSE, readable |-> TRUE, contents |-> <<"var", "var">>]
GoneJs == [syntaxOk |-> TRUE, readable |-> FALSE, contents |-> <<>>]

\* File trees the runs of main are checked on.
FileSystems ==
  { [html |-> <<GoodHtml>>, css |-> <<GoodCss>>, js |-> <<GoodJs>>],
    [html |-> <<WarnHtml>>, css |-> <<WarnCss>>, js |-> <<WarnJs, GoodJs>>],
    [html |-> <<GoodHtml, BadHtml>>, css |-> <<GoodCss>>, js |-> <<WarnJs>>],
    [html |-> <<>>, css |-> <<BadCss>>, js |-> <<BadJs, WarnJs>>],
    [html |-> <<WarnHtml>>, css |-> <<>>, js |-> <<GoodJs, GoneJs>>] }

\* Every scope, whatever --scope says.
ScopesToRun_All(sc) == Scopes

\* const scopesToRun = scope ? [scope] : Array.from(tasks.keys());
ScopesToRun(sc) == IF sc # "null" /\ sc # "" THEN <<sc>> ELSE Scopes

\* tasks.get(currentScope)()
Task(s) ==
  CASE s = "html" -> lintHtml(htmlFiles)
    [] s = "css" -> lintCss(cssFiles)
    [] s = "js" -> lintJs(jsFiles)
    [] OTHER -> [errors |-> <<>>, warnings |-> <<>>, threw |-> TRUE]

Line(s, kind, d) == [scope |-> s, kind |-> kind, diag |-> d]

NoDiag == Diag(0, 0, "none")

\* What main prints for one scope's result.
ReportLines(s, r) ==
  IF Len(r.errors) = 0 /\ Len(r.warnings) = 0
  THEN <<Line(s, "no-issues", NoDiag)>>
  ELSE <<Line(s, "header", NoDiag)>>
       \o [k \in 1..Len(r.warnings) |-> Line(s, "warning", r.warnings[k])]
       \o [k \in 1..Len(r.errors) |-> Line(s, "error", r.errors[k])]

\* hasErrors set by warnings as well.
ReportHasErrors_AnyIssue(has, r) == has \/ Len(r.errors) > 0 \/ Len(r.warnings) > 0

\* hasErrors after errors.forEach of one scope's result.
ReportHasErrors(has, r) == has \/ Len(r.errors) > 0

ParseArgsOk ==
  /\ pc = "main"
  /\ parseArgs(argv).error = "none"
  /\ scope' = parseArgs(argv).scope
  /\ scopesToRun' = ScopesToRun(parseArgs(argv).scope)
  /\ cursor' = 1
  /\ pc' = "loop"
  /\ UNCHANGED <<argv, hasErrors, exitCode, invoked, running, walkCalls, printed,
                 taskResult, threw, produced, fileVars, walkVars, typeVars>>

ParseArgsThrow ==
  /\ pc = "main"
  /\ parseArgs(argv).error # "none"
  /\ threw' = "args"
  /\ printed' = Append(printed, Line("none", "lint-failed", NoDiag))
  /\ exitCode' = 1
  /\ pc' = "done"
  /\ UNCHANGED <<argv, scope, scopesToRun, cursor, hasErrors, invoked, running,
                 walkCalls, taskResult, produced, fileVars, walkVars, typeVars>>

\* await task(): the analyzer is called; it starts with walkForExtensions.
InvokeTask ==
  /\ pc = "loop"
  /\ cursor <= Len(scopesToRun)
  /\ running' = scopesToRun[cursor]
  /\ invoked' = Append(invoked, scopesToRun[cursor])
  /\ walkCalls' = walkCalls + 1
  /\ pc' = "await"
  /\ UNCHANGED <<argv, scope, scopesToRun, cursor, hasErrors, exitCode, printed,
                 taskResult, threw, produced, fileVars, walkVars, typeVars>>

\* The analyzer's promise is fulfilled.
TaskReturn ==
  /\ pc = "await"
  /\ ~Task(running).threw
  /\ taskResult' = Task(running)
  /\ produced' = produced + Len(Task(running).errors)
  /\ running' = "none"
  /\ pc' = "report"
  /\ UNCHANGED <<argv, scope, scopesToRun, cursor, hasErrors, exitCode, invoked,
                 walkCalls, printed, threw, fileVars, walkVars, typeVars>>

\* The analyzer's promise is rejected: readdir or readFile failed.
TaskThrow ==
  /\ pc = "await"
  /\ threw' = "task"
  /\ printed' = Append(printed, Line("none", "lint-failed", NoDiag))
  /\ exitCode' = 1
  /\ running' = "none"
  /\ pc' = "done"
  /\ UNCHANGED <<argv, scope, scopesToRun, cursor, hasErrors, invoked, walkCalls,
                 taskResult, produced, fileVars, walkVars, typeVars>>

\* The rest of the loop body: the scope's lines are printed.
Report ==
  /\ pc = "report"
  /\ printed' = printed \o ReportLines(scopesToRun[cursor], taskResult)
  /\ hasErrors' = ReportHasErrors(hasErrors, taskResult)
  /\ cursor' = cursor + 1
  /\ pc' = "loop"
  /\ UNCHANGED <<argv, scope, scopesToRun, exitCode, invoked, running, walkCalls,
                 taskResult, threw, produced, fileVars, walkVars, typeVars>>

\* After the loop: if (hasErrors) process.exitCode = 1.
Finish ==
  /\ pc = "loop"
  /\ cursor > Len(scopesToRun)
  /\ exitCode' = IF hasErrors THEN 1 ELSE exitCode
  /\ pc' = "done"
  /\ UNCHANGED <<argv, scope, scopesToRun, cursor, hasErrors, invoked, running,
                 walkCalls, printed, taskResult, threw, produced, fileVars,
                 walkVars, typeVars>>

InitMain ==
  /\ argv \in SeqsUpTo(ArgTokens, MaxArgs)
  /\ pc = "main"
  /\ scope = "null" /\ scopesToRun = <<>> /\ cursor = 1
  /\ hasErrors = FALSE /\ exitCode = 0 /\ invoked = <<>> /\ running = "none"
  /\ walkCalls = 0 /\ printed = <<>> /\ taskResult = NoResult
  /\ threw = "none" /\ produced = 0
  /\ \E fs \in FileSystems :
       htmlFiles = fs.html /\ cssFiles = fs.css /\ jsFiles = fs.js
  /\ WalkIdle /\ TypeIdle

NextMain ==
  \/ ParseArgsOk
  \/ ParseArgsThrow
  \/ InvokeTask
  \/ TaskReturn
  \/ TaskThrow
  \/ Report
  \/ Finish

SpecMain == InitMain /\ [][NextMain]_vars

(***************************************************************************)
(* The analyzers on their own: one call of lintCss, lintHtml or lintJs on  *)
(* files drawn from bounded sets.                                          *)
(***************************************************************************)
CssChars == {"a", " ", "\n", "{", "}", "@"}

InitCss ==
  /\ pc = "lintCss"
  /\ MainIdle /\ WalkIdle /\ TypeIdle
  /\ htmlFiles = <<>> /\ jsFiles = <<>>
  /\ \E c \in SeqsUpTo(CssChars, MaxCssLen) : cssFiles = <<c>>

LintCssTask ==
  /\ pc = "lintCss"
  /\ taskResult' = lintCss(cssFiles)
  /\ pc' = "returned"
  /\ UNCHANGED <<argv, scope, scopesToRun, cursor, hasErrors, exitCode, invoked,
                 running, walkCalls, printed, threw, produced, fileVars, walkVars,
                 typeVars>>

SpecCss == InitCss /\ [][LintCssTask]_vars

HtmlAtoms == {"<img", " ", "alt=", ">", "\n", "x"}

InitHtml ==
  /\ pc = "lintHtml"
  /\ MainIdle /\ WalkIdle /\ TypeIdle
  /\ cssFiles = <<>> /\ jsFiles = <<>>
  /\ \E c \in SeqsUpTo(HtmlAtoms, MaxHtmlLen) : htmlFiles = <<c>>

LintHtmlTask ==
  /\ pc = "lintHtml"
  /\ taskResult' = lintHtml(htmlFiles)
  /\ pc' = "returned"
  /\ UNCHANGED <<argv, scope, scopesToRun, cursor, hasErrors, exitCode, invoked,
                 running, walkCalls, printed, threw, produced, fileVars, walkVars,
                 typeVars>>

SpecHtml == InitHtml /\ [][LintHtmlTask]_vars

JsContents ==
  { <<>>, <<"'use strict';">>, <<" ", "\"use strict\";", "var">>, <<"var">>,
    <<"x", "var">>, <<"\n", "var", " ", "x">> }

JsFiles == [syntaxOk : BOOLEAN, readable : BOOLEAN, contents : JsContents]

InitJs ==
  /\ pc = "lintJs"
  /\ MainIdle /\ WalkIdle /\ TypeIdle
  /\ htmlFiles = <<>> /\ cssFiles = <<>>
  /\ jsFiles \in SeqsUpTo(JsFiles, MaxJsFiles)

LintJsTask ==
  /\ pc = "lintJs"
  /\ taskResult' = lintJs(jsFiles)
  /\ pc' = "returned"
  /\ UNCHANGED <<argv, scope, scopesToRun, cursor, hasErrors, exitCode, invoked,
                 running, walkCalls, printed, threw, produced, fileVars, walkVars,
                 typeVars>>

SpecJs == InitJs /\ [][LintJsTask]_vars

(***************************************************************************)
(* walkForExtensions on a bounded tree.  readdir returns the entries in no *)
(* particular order: the for-loop of visit takes any entry still to do.    *)
(***************************************************************************)
FileNames == {<<"a", ".", "js">>, <<"b", ".", "js">>, <<"a", ".", "css">>, <<"dist">>}
DirNames == {<<"src">>, <<"dist">>, <<"node_modules">>, <<".", "git">>}

\* The extension sets lintHtml, lintCss and lintJs pass.
ExtensionSets == {{<<".", "html">>}, {<<".", "css">>}, {<<".", "js">>}}

\* The trees with one more entry than t.
Grow(t) ==
  LET dirs == {<<>>} \cup {n.path : n \in {m \in t : m.dir}}
      New == {[path |-> Append(d, name), dir |-> FALSE] : d \in dirs, name \in FileNames}
             \cup {[path |-> Append(d, name), dir |-> TRUE] : d \in dirs, name \in DirNames}
  IN {t \cup {n} : n \in {m \in New : \A o \in t : o.path # m.path}}

RECURSIVE Trees(_)
Trees(n) ==
  IF n = 0 THEN {{}}
  ELSE Trees(n - 1) \cup UNION {Grow(t) : t \in Trees(n - 1)}

InitWalk ==
  /\ pc = "walk"
  /\ MainIdle /\ TypeIdle
  /\ htmlFiles = <<>> /\ cssFiles = <<>> /\ jsFiles = <<>>
  /\ tree \in Trees(MaxNodes)
  /\ extensions \in ExtensionSets
  /\ stack = <<>> /\ results = <<>> /\ readdirCalls = {}

Top == stack[Len(stack)]

Pop == SubSeq(stack, 1, Len(stack) - 1)

\* The entry e of the top frame is done.
Done(e) == Append(Pop, [dir |-> Top.dir, todo |-> Top.todo \ {e}])

\* await visit(directory): readdir of the root.
WalkStart ==
  /\ pc = "walk"
  /\ stack' = <<[dir |-> <<>>, todo |-> Readdir(tree, <<>>)]>>
  /\ readdirCalls' = {<<>>}
  /\ pc' = "visit"
  /\ UNCHANGED <<argv, scope, scopesToRun, cursor, hasErrors, exitCode, invoked,
                 running, walkCalls, printed, taskResult, threw, produced,
                 fileVars, typeVars, tree, extensions, results>>

\* if (IGNORED_FOLDERS.has(entry.name)) continue;
VisitIgnored ==
  /\ pc = "visit"
  /\ \E e \in Top.todo :
       /\ IsIgnored(e)
       /\ stack' = Done(e)
  /\ UNCHANGED <<mainVars, fileVars, typeVars, tree, extensions, results, readdirCalls>>

\* if (entry.isDirectory()) await visit(absolute);
VisitDirectory ==
  /\ pc = "visit"
  /\ \E e \in Top.todo :
       /\ ~IsIgnored(e)
       /\ e.dir
       /\ stack' = Append(Done(e), [dir |-> e.path, todo |-> Readdir(tree, e.path)])
       /\ readdirCalls' = readdirCalls \cup {e.path}
  /\ UNCHANGED <<mainVars, fileVars, typeVars, tree, extensions, results>>

\* else if (extensions.has(path.extname(entry.name))) results.push(absolute);
VisitFile ==
  /\ pc = "visit"
  /\ \E e \in Top.todo :
       /\ ~IsIgnored(e)
       /\ ~e.dir
       /\ stack' = Done(e)
       /\ results' = IF extname(EntryName(e)) \in extensions
                     THEN Append(results, Join(Absolute(Top.dir), EntryName(e)))
                     ELSE results
  /\ UNCHANGED <<mainVars, fileVars, typeVars, tree, extensions, readdirCalls>>

\* A nested visit returns to the loop of its caller.
VisitReturn ==
  /\ pc = "visit"
  /\ Len(stack) > 1
  /\ Top.todo = {}
  /\ stack' = Pop
  /\ UNCHANGED <<mainVars, fileVars, typeVars, tree, extensions, results, readdirCalls>>

\* The outermost visit returns: results.sort(); return results.
WalkReturn ==
  /\ pc = "visit"
  /\ Len(stack) = 1
  /\ Top.todo = {}
  /\ stack' = <<>>
  /\ results' = SortPaths(results)
  /\ pc' = "walked"
  /\ UNCHANGED <<argv, scope, scopesToRun, cursor, hasErrors, exitCode, invoked,
                 running, walkCalls, printed, taskResult, threw, produced,
                 fileVars, typeVars, tree, extensions, readdirCalls>>

NextWalk ==
  \/ WalkStart
  \/ VisitIgnored
  \/ VisitDirectory
  \/ VisitFile
  \/ VisitReturn
  \/ WalkReturn

SpecWalk == InitWalk /\ [][NextWalk]_vars

(***************************************************************************)
(* The typewriter of the browser script.                                   *)
(***************************************************************************)
TitleChars == {"H", " "}

Titles == SeqsUpTo(TitleChars, MaxTitleLen)

InitType ==
  /\ pc = "load"
  /\ MainIdle /\ WalkIdle
  /\ htmlFiles = <<>> /\ cssFiles = <<>> /\ jsFiles = <<>>
  /\ dataText \in {[present |-> FALSE, value |-> <<>>]}
                  \cup {[present |-> TRUE, value |-> v] : v \in Titles}
  /\ textContent \in Titles
  /\ titleAtLoad = FullText(dataText, textContent)
  /\ typing = "unset"
  /\ matches \in BOOLEAN
  /\ typingTimeout = 0 /\ timers = {} /\ nextTimer = 1 /\ changes = 0

\* clearTimeout(typingTimeout)
Cleared == {t \in timers : t.id # typingTimeout}

\* runTypewriter, with reduceMotion.matches = m.  Without reduced motion it
\* ends with the first call of typeChar (index 0), which sets a timer.
RunTypewriter(m) ==
  LET fullText == FullText(dataText, textContent)
  IN IF m
     THEN /\ textContent' = fullText
          /\ typing' = "false"
          /\ timers' = Cleared
          /\ UNCHANGED <<typingTimeout, nextTimer>>
     ELSE /\ typing' = "true"
          /\ textContent' = Slice(fullText, 0)
          /\ timers' = Cleared \cup {[id |-> nextTimer, index |-> 1, fullText |-> fullText]}
          /\ typingTimeout' = nextTimer
          /\ nextTimer' = nextTimer + 1

\* DOMContentLoaded: runTypewriter(); the change listener is registered.
Load ==
  /\ pc = "load"
  /\ RunTypewriter(matches)
  /\ pc' = "page"
  /\ UNCHANGED <<argv, scope, scopesToRun, cursor, hasErrors, exitCode, invoked,
                 running, walkCalls, printed, taskResult, threw, produced,
                 fileVars, walkVars, dataText, matches, titleAtLoad, changes>>

\* A pending timer fires: typeChar.
TypeChar ==
  /\ pc = "page"
  /\ \E t \in timers :
       IF t.index <= Len(t.fullText)
       THEN /\ textContent' = Slice(t.fullText, t.index)
            /\ timers' = (timers \ {t})
                         \cup {[id |-> nextTimer, index |-> t.index + 1,
                                fullText |-> t.fullText]}
            /\ typingTimeout' = nextTimer
            /\ nextTimer' = nextTimer + 1
            /\ UNCHANGED typing
       ELSE /\ typing' = "false"
            /\ timers' = timers \ {t}
            /\ UNCHANGED <<textContent, typingTimeout, nextTimer>>
  /\ UNCHANGED <<mainVars, fileVars, walkVars, dataText, matches, titleAtLoad, changes>>

\* The reduced-motion preference changes: the listener runs runTypewriter.
MotionChange ==
  /\ pc = "page"
  /\ changes < MaxChanges
  /\ matches' = ~matches
  /\ changes' = changes + 1
  /\ RunTypewriter(~matches)
  /\ UNCHANGED <<mainVars, fileVars, walkVars, dataText, titleAtLoad>>

NextType ==
  \/ Load
  \/ TypeChar
  \/ MotionChange

SpecType == InitType /\ [][NextType]_vars

(***************************************************************************)
(* Properties.                                                             *)
(***************************************************************************)
\* ---- main ----

\* C1: when the run has ended, the exit status is 1 if and only if some
\* executed scope returned at least one Error, or parseArgs threw, or an
\* analyzer threw; otherwise (warnings only, or nothing) it is 0.
C1_ExitStatus ==
  /\ exitCode \in {0, 1}
  /\ pc = "done" => (exitCode = 1 <=> (produced > 0 \/ threw # "none"))

\* A run of all three scopes that printed warnings and ended with status 0.
C1_Witness ==
  /\ pc = "done"
  /\ exitCode = 0
  /\ Len(invoked) = 3
  /\ \E k \in 1..Len(printed) : printed[k].kind = "warning"

\* The run failed in parseArgs: nothing was scanned.
FailedBeforeScanning ==
  /\ walkCalls = 0
  /\ invoked = <<>>
  /\ pc \in {"main", "done"}
  /\ pc = "done" =>
       /\ exitCode = 1
       /\ threw = "args"
       /\ printed = <<Line("none", "lint-failed", NoDiag)>>

\* Some --scope token is last, or is followed by a token that is not one of
\* html, css, js (in any letter case).
BadScopeFlag(args) ==
  \E i \in 1..Len(args) :
    /\ args[i] = "--scope"
    /\ i = Len(args) \/ ToLowerCase(args[i + 1]) \notin ScopeSet

\* C2 as stated: a --scope flag at any position with a missing value or a
\* value other than html, css, js makes the run fail before any scanning.
C2_AnyBadFlagFails == BadScopeFlag(argv) => FailedBeforeScanning

\* Number of consecutive "--scope" tokens right before position i.
FlagRun(args, i) ==
  Cardinality({k \in 1..(i - 1) : \A j \in k..(i - 1) : args[j] = "--scope"})

\* Token i is read as a flag (not consumed as the value of the flag before
\* it): it is "--scope" and an even number of "--scope" tokens precede it
\* directly.
IsFlag(args, i) == args[i] = "--scope" /\ FlagRun(args, i) % 2 = 0

Flags(args) == {i \in 1..Len(args) : IsFlag(args, i)}

\* The effective --scope is bad: a flag has no value (none, or the empty
\* string), or the value of the last flag, lowercased, is not a scope.
BadEffectiveScope(args) ==
  \/ \E i \in Flags(args) : i = Len(args) \/ args[i + 1] = ""
  \/ \E i \in Flags(args) :
       /\ \A j \in Flags(args) : j <= i
       /\ i < Len(args)
       /\ ToLowerCase(args[i + 1]) \notin ScopeSet

\* C2, amended: if a --scope flag has no value, or the lowercased value of
\* the last --scope flag is not one of html, css, js, the run fails before
\* any scanning: walkForExtensions is never called, no analyzer runs, one
\* error message is printed and the exit status is 1.
C2_EffectiveScopeFails == BadEffectiveScope(argv) => FailedBeforeScanning

\* Two flags, the first with a good value, the last with a bad one.
C2_Witness ==
  /\ pc = "done"
  /\ threw = "args"
  /\ Len(argv) = 4
  /\ argv[1] = "--scope" /\ argv[2] = "css" /\ argv[3] = "--scope" /\ argv[4] = "foo"

IsPrefix(x, y) == Len(x) <= Len(y) /\ x = SubSeq(y, 1, Len(x))

OnlyScopePrinted(s) ==
  \A k \in 1..Len(printed) : printed[k].scope \in {s, "none"}

\* C9 as stated: with a valid --scope only that analyzer is invoked and only
\* its diagnostics are printed; without --scope all three analyzers are
\* invoked exactly once each, in the order html, css, js.
C9_AllThreeInvoked ==
  (pc = "done" /\ threw # "args") =>
    IF scope # "null"
    THEN invoked = <<scope>> /\ OnlyScopePrinted(scope)
    ELSE invoked = Scopes

\* C9, amended: with a valid --scope only that analyzer is invoked and no
\* diagnostic of another scope is printed; without --scope the analyzers
\* are invoked in the order html, css, js, at most once each and one at a
\* time, and all three are invoked unless an analyzer throws, which ends
\* the run without invoking the remaining ones.
C9_ScopeDispatch ==
  /\ running # "none" <=> pc = "await"
  /\ running # "none" => running = invoked[Len(invoked)]
  /\ scope # "null" =>
       /\ IsPrefix(invoked, <<scope>>)
       /\ OnlyScopePrinted(scope)
       /\ pc = "done" => invoked = <<scope>>
  /\ scope = "null" =>
       /\ IsPrefix(invoked, Scopes)
       /\ (pc = "done" /\ threw = "none") => invoked = Scopes
       /\ (pc = "done" /\ threw = "task") => running = "none" /\ Len(invoked) >= 1

\* --scope css on a tree whose markup has Errors: nothing of html printed.
C9_Witness ==
  /\ pc = "done"
  /\ scope = "css"
  /\ threw = "none"
  /\ invoked = <<"css">>
  /\ lintHtml(htmlFiles).errors # <<>>

\* ---- lintCss ----

\* Opening minus closing braces among the first n characters.
Balance(c, n) ==
  Cardinality({k \in 1..n : c[k] = "{"}) - Cardinality({k \in 1..n : c[k] = "}"})

Dips(c) == \E n \in 1..Len(c) : Balance(c, n) < 0

\* C3: the brace check reports "unexpected closing brace" exactly when some
\* prefix of the stylesheet has more "}" than "{", "missing closing brace"
\* exactly when no prefix has and the whole text has more "{" than "}", each
\* at most once and never both.
C3_BraceBalance ==
  pc = "returned" =>
    LET c == cssFiles[1]
        e == taskResult.errors
        unexpected == CountRule(e, 1, "unexpected-closing-brace")
        missing == CountRule(e, 1, "missing-closing-brace")
    IN /\ unexpected = (IF Dips(c) THEN 1 ELSE 0)
       /\ missing = (IF ~Dips(c) /\ Balance(c, Len(c)) > 0 THEN 1 ELSE 0)
       /\ unexpected + missing <= 1

\* A stylesheet that dips below zero and still ends with more "{" than "}".
C3_Witness ==
  /\ pc = "returned"
  /\ Dips(cssFiles[1])
  /\ Balance(cssFiles[1], Len(cssFiles[1])) > 0
  /\ CountRule(taskResult.errors, 1, "unexpected-closing-brace") = 1

\* The line a position is on, counted from the start of the text.
RECURSIVE RefLine(_, _)
RefLine(c, i) ==
  IF i <= 1 THEN 1 ELSE RefLine(c, i - 1) + (IF c[i - 1] = "\n" THEN 1 ELSE 0)

\* The text before the "{" at position e, back to the previous brace.
PreludeStart(c, e) ==
  LET B == {k \in 1..(e - 1) : IsBrace(c[k])}
  IN IF B = {} THEN 1 ELSE 1 + CHOOSE k \in B : \A j \in B : j <= k

Prelude(c, e) == SubSeq(c, PreludeStart(c, e), e - 1)

\* The opening braces that follow a selector.
RuleBraces(c) == {e \in 1..Len(c) : c[e] = "{" /\ Trim(Prelude(c, e)) # <<>>}

SelectorAt(c, e) == CollapseSpace(Trim(Prelude(c, e)))

\* Position of the first character of the selector's text before e.
TextStart(c, e) ==
  PreludeStart(c, e) + (Len(Prelude(c, e)) - Len(TrimStart(Prelude(c, e))))

DupWarnings(w, sel) ==
  {k \in 1..Len(w) : w[k].rule = "duplicate-selector" /\ w[k].selector = sel}

\* C6 (on stylesheets without "@"): a selector that appears k times before
\* an opening brace gets k-1 duplicate-selector warnings, each naming the
\* line on which the selector's first occurrence appears.
C6_FirstSeenLine ==
  (pc = "returned" /\ \A k \in 1..Len(cssFiles[1]) : cssFiles[1][k] # "@") =>
    LET c == cssFiles[1]
        w == taskResult.warnings
    IN \A e \in RuleBraces(c) :
         LET sel == SelectorAt(c, e)
             occ == {f \in RuleBraces(c) : SelectorAt(c, f) = sel}
             first == CHOOSE f \in occ : \A g \in occ : f <= g
         IN /\ Cardinality(DupWarnings(w, sel)) = Cardinality(occ) - 1
            /\ \A k \in DupWarnings(w, sel) :
                 w[k].firstSeen = RefLine(c, TextStart(c, first))

\* C7: a stylesheet whose every block prelude starts with "@" gets no
\* duplicate-selector warning, however often an at-rule prelude repeats.
C7_AtRulesExcluded ==
  (pc = "returned"
   /\ \A e \in RuleBraces(cssFiles[1]) : Head(Trim(Prelude(cssFiles[1], e))) = "@") =>
    \A k \in 1..Len(taskResult.warnings) :
      taskResult.warnings[k].rule # "duplicate-selector"

\* ---- lintJs ----

\* The diagnostics of file k in a list, the file index left out.
OfFile(diags, k) ==
  LET mine == SelectSeq(diags, LAMBDA d : d.file = k)
  IN [j \in 1..Len(mine) |-> mine[j].rule]

Rules(diags) == [j \in 1..Len(diags) |-> diags[j].rule]

\* C4: a file that fails the syntax check contributes exactly one Error and
\* no Warning, and the failure does not abort the scope: lintJs throws only
\* when a file that passed the check cannot be read, and otherwise every
\* file of the list gets the diagnostics it gets when linted alone.
C4_SyntaxErrorPerFile ==
  pc = "returned" =>
    LET r == taskResult
    IN /\ r.threw <=> \E k \in 1..Len(jsFiles) :
                        jsFiles[k].syntaxOk /\ ~jsFiles[k].readable
       /\ ~r.threw =>
            \A k \in 1..Len(jsFiles) :
              /\ ~jsFiles[k].syntaxOk =>
                   /\ OfFile(r.errors, k) = <<"syntax">>
                   /\ OfFile(r.warnings, k) = <<>>
              /\ jsFiles[k].syntaxOk =>
                   /\ OfFile(r.errors, k) = <<>>
                   /\ OfFile(r.warnings, k) = Rules(StyleWarnings(1, jsFiles[k].contents))

\* A file with a syntax error (and a var) first, then a file with warnings.
C4_Witness ==
  /\ pc = "returned"
  /\ Len(jsFiles) = 2
  /\ ~jsFiles[1].syntaxOk /\ HasVar(jsFiles[1].contents)
  /\ jsFiles[2].syntaxOk
  /\ OfFile(taskResult.errors, 1) = <<"syntax">>
  /\ OfFile(taskResult.warnings, 2) = <<"strict", "var">>

\* ---- lintHtml ----

\* The <img ...> tags of a document, left to right: an "<img" that is not
\* inside an earlier tag, ends at a word boundary and has a ">" after it.
RECURSIVE ImgTags(_, _)
ImgTags(c, n) ==
  IF n = 0 THEN {}
  ELSE LET before == ImgTags(c, n - 1)
       IN IF /\ c[n] \in ImgOpens
             /\ (n = Len(c) \/ ~StartsWord(c[n + 1]))
             /\ \E e \in (n + 1)..Len(c) : HasGt(c[e])
             /\ \A i \in before : TagEnd(c, i) < n
          THEN before \cup {n}
          ELSE before

\* The tag at i has no alt= at a word boundary.
LacksAlt(c, i) ==
  ~\E j \in (i + 1)..TagEnd(c, i) : c[j] \in AltAttrs /\ ~EndsWord(c[j - 1])

TagsWithoutAlt(c) == {i \in ImgTags(c, Len(c)) : LacksAlt(c, i)}

AltErrors == SelectSeq(taskResult.errors, LAMBDA d : d.rule = "img-alt")

\* C5 as stated: N <img> tags without alt give N missing-alt Errors whose
\* line numbers are pairwise distinct and are the lines the tags start on.
C5_DistinctLines ==
  pc = "returned" =>
    LET c == htmlFiles[1]
        T == TagsWithoutAlt(c)
    IN /\ Len(AltErrors) = Cardinality(T)
       /\ \A j, k \in 1..Len(AltErrors) : j # k => AltErrors[j].line # AltErrors[k].line
       /\ {AltErrors[k].line : k \in 1..Len(AltErrors)} = {RefLine(c, i) : i \in T}

\* C5, amended: N <img> tags without alt give N missing-alt Errors, the
\* k-th carrying the 1-based line on which the k-th such tag starts; tags
\* that start on the same line get the same line number.
C5_OneErrorPerTag ==
  pc = "returned" =>
    LET c == htmlFiles[1]
        T == TagsWithoutAlt(c)
    IN /\ Len(AltErrors) = Cardinality(T)
       /\ \A k \in 1..Len(AltErrors) :
            \E i \in T :
              /\ Cardinality({j \in T : j <= i}) = k
              /\ AltErrors[k].line = RefLine(c, i)
              /\ AltErrors[k].file = 1

\* Two tags without alt on line 2.
C5_Witness ==
  /\ pc = "returned"
  /\ Len(AltErrors) = 2
  /\ AltErrors[1].line = 2 /\ AltErrors[2].line = 2

\* ---- walkForExtensions ----

\* The files the walk must return: extension in the set, no directory of
\* the path below the root named in IGNORED_FOLDERS.
Expected ==
  {Absolute(n.path) : n \in
     {m \in tree : /\ ~m.dir
                   /\ extname(EntryName(m)) \in extensions
                   /\ \A k \in 1..(Len(m.path) - 1) : m.path[k] \notin IGNORED_FOLDERS}}

\* C8: the walk returns exactly the files with a wanted extension that are
\* under no ignored directory at any depth, each once, in ascending order
\* of path, and readdir is never called on an ignored directory.
C8_Walk ==
  /\ \A d \in readdirCalls : \A k \in 1..Len(d) : d[k] \notin IGNORED_FOLDERS
  /\ pc = "walked" =>
       /\ {results[k] : k \in 1..Len(results)} = Expected
       /\ Len(results) = Cardinality(Expected)
       /\ \A j, k \in 1..Len(results) : j < k => StrLess(results[j], results[k])

\* A wanted file under an ignored directory two levels down.
C8_Witness ==
  /\ pc = "walked"
  /\ \E n \in tree :
       /\ Len(n.path) = 3
       /\ n.path[1] \notin IGNORED_FOLDERS
       /\ n.path[2] \in IGNORED_FOLDERS
       /\ ~n.dir
       /\ extname(EntryName(n)) \in extensions
  /\ results = <<>>

\* ---- typewriter ----

\* C10: after page load at most one typeChar timer is pending, and when
\* none is pending the title shows the full text it had at page load and
\* data-typing is 'false'.
C10_TitleRestored ==
  pc = "page" =>
    /\ Cardinality(timers) <= 1
    /\ timers = {} => (textContent = titleAtLoad /\ typing = "false")

====
